---------------------------- MODULE Spec2Model ----------------------------
(***************************************************************************)
(* The write path of the postgres tuple store:                             *)
(* internal/datastore/postgres/tuple.go, pgDatastore.WriteTuples.          *)
(*                                                                         *)
(* One call of WriteTuples is a sequence of statements sent to the storage *)
(* engine inside one transaction: Begin, one existence query per           *)
(* precondition, createNewTransaction, one UPDATE per TOUCH/DELETE         *)
(* mutation, one batched INSERT, Commit.  Each statement is one step of    *)
(* the model.  The engine is the one the code asks for: pgxpool.Begin      *)
(* with no options, i.e. a READ COMMITTED transaction in which a plain     *)
(* SELECT takes no lock, an UPDATE locks the rows it changes until the     *)
(* transaction ends, and a statement sees what is committed when it runs   *)
(* plus the transaction's own writes.                                      *)
(***************************************************************************)
EXTENDS Integers, Sequences, FiniteSets, TLC

(***************************************************************************)
(* Bounds of the model.                                                    *)
(***************************************************************************)
MaxTxn == 3
MaxPre == 2
MaxMut == 2

Callers == {"c1", "c2"}

(***************************************************************************)
(* v0.RelationTuple: ObjectAndRelation and User.GetUserset().              *)
(***************************************************************************)
RelationTuple(oid, uid) ==
    [ObjectAndRelation |-> [Namespace |-> "document", ObjectId |-> oid, Relation |-> "viewer"],
     User |-> [Namespace |-> "user", ObjectId |-> uid, Relation |-> "..."]]

tupleA == RelationTuple("a", "u1")
tupleA2 == RelationTuple("a", "u2")
tupleB == RelationTuple("b", "u1")

Tuples == {tupleA, tupleA2, tupleB}

(* The tuples the calls of Spec are about. *)
SpecTuples == {tupleA, tupleB}

Operations == {"CREATE", "DELETE", "TOUCH"}

RelationTupleUpdate(tuples) == [Operation : Operations, Tuple : tuples]

SeqsUpTo(S, n) == UNION {[1..k -> S] : k \in 0..n}

(***************************************************************************)
(* Values defined beside tuple.go in the same package and in the datastore *)
(* package.                                                                *)
(***************************************************************************)
liveDeletedTxnID == 2147483647

NoRevision == 0

revisionFromTransaction(txID) == txID

NoTuple == "none"

NoCause == "none"

errUnableToWriteTuples == "unable to write tuples"

NoError == [kind |-> "nil", msg |-> "", cause |-> NoCause, tuple |-> NoTuple]

NewPreconditionFailedErr(tpl) ==
    [kind |-> "PreconditionFailed", msg |-> "", cause |-> NoCause, tuple |-> tpl]

(* fmt.Errorf(errUnableToWriteTuples, err) *)
WrapError(cause) ==
    [kind |-> "WriteFailed", msg |-> errUnableToWriteTuples, cause |-> cause, tuple |-> NoTuple]

(* The error a statement can come back with from the engine or the builder. *)
Causes == {"db"}

ctxCanceled == "context canceled"

ErrNoRows == "no rows in result set"

uniqueViolation == "unique_violation"

VARIABLES
    tableTuple,     \* the committed rows of relation_tuple, by id
    nextTxnID,      \* the next value of the transaction id sequence
    call,           \* per caller: the position and locals of its WriteTuples call
    obs,            \* per caller: what an observer of the call recorded
    lastRevision    \* the greatest revision any call has returned so far

vars == <<tableTuple, nextTxnID, call, obs, lastRevision>>

(***************************************************************************)
(* SQL fragments.                                                          *)
(***************************************************************************)
(* sq.Eq over the six key columns *)
exactTupleClause(tpl) ==
    [namespace |-> tpl.ObjectAndRelation.Namespace,
     object_id |-> tpl.ObjectAndRelation.ObjectId,
     relation |-> tpl.ObjectAndRelation.Relation,
     userset_namespace |-> tpl.User.Namespace,
     userset_object_id |-> tpl.User.ObjectId,
     userset_relation |-> tpl.User.Relation]

(* queryTupleExists.Where(exactTupleClause(tpl)).Limit(1) *)
queryTupleExists(tpl) == exactTupleClause(tpl)

(* An UPDATE whose clause is over the object and relation alone. *)
deleteTupleByObject(tpl) ==
    [namespace |-> tpl.ObjectAndRelation.Namespace,
     object_id |-> tpl.ObjectAndRelation.ObjectId,
     relation |-> tpl.ObjectAndRelation.Relation,
     deleted_transaction |-> liveDeletedTxnID]

(* An UPDATE that leaves out the condition on deleted_transaction. *)
deleteTupleAnyRow(tpl) == exactTupleClause(tpl)

(* deleteTuple.Where(exactTupleClause(tpl)): UPDATE ... WHERE deleted = live AND key *)
deleteTuple(tpl) ==
    exactTupleClause(tpl) @@ [deleted_transaction |-> liveDeletedTxnID]

(* writeTuple.Values(key columns..., newTxnID); deleted_transaction takes its default *)
writeTuple(tpl, txID) ==
    exactTupleClause(tpl) @@
        [created_transaction |-> txID, deleted_transaction |-> liveDeletedTxnID]

Matches(row, where) == \A col \in DOMAIN where : row[col] = where[col]

KeyColumns == DOMAIN exactTupleClause(tupleA)

SameKey(r1, r2) == \A col \in KeyColumns : r1[col] = r2[col]

IsLive(row) == row.deleted_transaction = liveDeletedTxnID

(***************************************************************************)
(* The transaction of one call: the rows it closed and the rows it         *)
(* inserted, not yet committed.                                            *)
(***************************************************************************)
InFlight(c) == call[c].pc \notin {"idle", "done"}

(* An UPDATE that stamps the id after the call's own. *)
CloseStampNext(c) == call[c].newTxnID + 1

(* The value the call's UPDATE statements set deleted_transaction to. *)
CloseStamp(c) == call[c].newTxnID

(* What a statement of c's transaction reads: the committed rows, with    *)
(* the rows it closed and the rows it inserted itself.                    *)
View(c) ==
    [id \in 1..Len(tableTuple) |->
        IF id \in call[c].txClosed
        THEN [tableTuple[id] EXCEPT !.deleted_transaction = CloseStamp(c)]
        ELSE tableTuple[id]]
    \o call[c].txInserted

Select(c, where) == {id \in DOMAIN View(c) : Matches(View(c)[id], where)}

(* A row another transaction in progress has updated: an UPDATE of it     *)
(* waits until that transaction ends.                                     *)
LockedByOther(c, id) == \E d \in Callers \ {c} : id \in call[d].txClosed

(* A transaction that ends without commit and keeps what it wrote. *)
AfterRollbackKeepsWrites(c) == View(c)

(* The committed table once c's transaction ends without commit. *)
AfterRollback(c) == tableTuple

(* The committed table once c's transaction commits. *)
AfterCommit(c) == View(c)

(* A table with no uniqueness constraint. *)
NoUniqueConstraint(rows) == FALSE

(* uq_tuple_living: no two live rows of one key. *)
UniqueViolation(rows) ==
    \E a, b \in DOMAIN rows :
        a < b /\ SameKey(rows[a], rows[b]) /\ IsLive(rows[a]) /\ IsLive(rows[b])

(* An INSERT waits for a transaction in progress that inserted, or closed, *)
(* a live row with the key of one of the new rows.                         *)
InsertWaits(c, rows) ==
    \E n \in DOMAIN rows :
        \/ \E d \in Callers \ {c} : \E m \in DOMAIN call[d].txInserted :
               SameKey(call[d].txInserted[m], rows[n])
        \/ \E id \in DOMAIN tableTuple :
               /\ SameKey(tableTuple[id], rows[n])
               /\ IsLive(tableTuple[id])
               /\ LockedByOther(c, id)

(***************************************************************************)
(* Init: an empty store, no call in progress.                              *)
(***************************************************************************)
IdleCall ==
    [pc |-> "idle", preconditions |-> <<>>, mutations |-> <<>>, idx |-> 1,
     ctxDone |-> FALSE, newTxnID |-> 0, bulkWrite |-> <<>>,
     bulkWriteHasValues |-> FALSE, txClosed |-> {}, txInserted |-> <<>>,
     revision |-> NoRevision, err |-> NoError]

NoObs ==
    [before |-> <<>>, floor |-> NoRevision, failedAt |-> "none", cause |-> NoCause,
     preSeenLive |-> TRUE, seqBefore |-> 0, log |-> <<>>]

(* An entry of the observer's log: a statement the call sent to the engine, *)
(* with the number of rows in its VALUES list if it is an INSERT.           *)
Stmt(kind, rows) == [stmt |-> kind, rows |-> rows]

Init ==
    /\ tableTuple = <<>>
    /\ nextTxnID = 1
    /\ call = [c \in Callers |-> IdleCall]
    /\ obs = [c \in Callers |-> NoObs]
    /\ lastRevision = NoRevision

(***************************************************************************)
(* Leaving the call.                                                       *)
(***************************************************************************)
(* return datastore.NoRevision, err -- with the deferred tx.Rollback(ctx) *)
ReturnError(c, err, at, cause, sent) ==
    /\ tableTuple' = AfterRollback(c)
    /\ call' = [call EXCEPT ![c] =
                    [@ EXCEPT !.pc = "done", !.idx = 1, !.bulkWrite = <<>>,
                              !.bulkWriteHasValues = FALSE,
                              !.txClosed = {}, !.txInserted = <<>>,
                              !.revision = NoRevision, !.err = err]]
    /\ obs' = [obs EXCEPT ![c] = [@ EXCEPT !.failedAt = at, !.cause = cause,
                                            !.log = @ \o sent]]
    /\ UNCHANGED lastRevision

(* The error of a statement that did not succeed: the context's if it is   *)
(* done, else one of the engine's.                                         *)
StatementErrors(c) == IF call[c].ctxDone THEN {ctxCanceled} ELSE Causes

(* A call that sends its INSERT whether or not a row was staged. *)
AfterMutationAlwaysInsert(muts, n, hasValues) ==
    IF n < Len(muts) THEN "mutate" ELSE "insert"

(* Where the call goes once mutation number n has been processed. *)
AfterMutation(muts, n, hasValues) ==
    IF n < Len(muts) THEN "mutate"
    ELSE IF hasValues THEN "insert" ELSE "commit"

(***************************************************************************)
(* The steps of WriteTuples.                                               *)
(***************************************************************************)
(* ctx = SeparateContextWithTracing(ctx): the caller's cancellation passes *)
(* through to the engine's call boundary.                                  *)
SeparateContextWithTracing(done) == done

(* The number of calls in progress that have yet to draw a transaction id. *)
Pending == Cardinality({d \in Callers : InFlight(d) /\ call[d].newTxnID = 0})

(* A call that goes to the allocation without a look at its preconditions. *)
FirstStepSkipsChecks(pre) == "alloc"

(* Where the call goes once its transaction is open. *)
FirstStep(pre) == IF pre = <<>> THEN "alloc" ELSE "precond"

(* Entry and pgd.dbpool.Begin(ctx). *)
Begin(c, pre, muts, done) ==
    /\ call[c].pc = "idle"
    /\ nextTxnID + Pending <= MaxTxn
    /\ LET entered == [IdleCall EXCEPT !.preconditions = pre, !.mutations = muts,
                                       !.ctxDone = SeparateContextWithTracing(done)]
           seen == [NoObs EXCEPT !.before = tableTuple, !.floor = lastRevision,
                                 !.seqBefore = nextTxnID]
       IN \/ /\ ~entered.ctxDone
             /\ call' = [call EXCEPT ![c] =
                            [entered EXCEPT !.pc = FirstStep(pre)]]
             /\ obs' = [obs EXCEPT ![c] = seen]
             /\ UNCHANGED <<tableTuple, nextTxnID, lastRevision>>
          \/ \E cause \in (IF entered.ctxDone THEN {ctxCanceled} ELSE Causes) :
             /\ call' = [call EXCEPT ![c] =
                            [entered EXCEPT !.pc = "done", !.err = WrapError(cause)]]
             /\ obs' = [obs EXCEPT ![c] =
                            [seen EXCEPT !.failedAt = "begin", !.cause = cause]]
             /\ UNCHANGED <<tableTuple, nextTxnID, lastRevision>>

(* The caller's context is cancelled while the call runs. *)
Cancel(c) ==
    /\ InFlight(c)
    /\ ~call[c].ctxDone
    /\ call' = [call EXCEPT ![c].ctxDone = SeparateContextWithTracing(TRUE)]
    /\ UNCHANGED <<tableTuple, nextTxnID, obs, lastRevision>>

(* pgx.ErrNoRows wrapped like any other error of the query. *)
NoRowsWrapped(tpl) == WrapError(ErrNoRows)

(* What the call returns when the existence query finds no row. *)
NoRowsError(tpl) == NewPreconditionFailedErr(tpl)

(* One iteration of the precondition loop. *)
CheckPrecondition(c) ==
    /\ call[c].pc = "precond"
    /\ LET tpl == call[c].preconditions[call[c].idx]
           found == Select(c, queryTupleExists(tpl))
           live == \E id \in found : IsLive(View(c)[id])
           last == call[c].idx = Len(call[c].preconditions)
       IN \/ /\ ~call[c].ctxDone
             /\ found # {}
             /\ call' = [call EXCEPT ![c] =
                            [@ EXCEPT !.idx = IF last THEN 1 ELSE @ + 1,
                                      !.pc = IF last THEN "alloc" ELSE "precond"]]
             /\ obs' = [obs EXCEPT ![c] =
                            [@ EXCEPT !.preSeenLive = @ /\ live,
                                      !.log = Append(@, Stmt("query", 0))]]
             /\ UNCHANGED <<tableTuple, nextTxnID, lastRevision>>
          \/ /\ ~call[c].ctxDone
             /\ found = {}
             /\ ReturnError(c, NoRowsError(tpl), "none", ErrNoRows, <<Stmt("query", 0)>>)
             /\ UNCHANGED nextTxnID
          \/ \E cause \in StatementErrors(c) :
             /\ ReturnError(c, WrapError(cause), "precond", cause, <<Stmt("query", 0)>>)
             /\ UNCHANGED nextTxnID

(* The id createNewTransaction returns: the next value of the sequence of *)
(* relation_tuple_transaction, which a rollback does not give back.      *)
NewTransactionID == nextTxnID

(* newTxnID, err := createNewTransaction(ctx, tx) *)
createNewTransaction(c) ==
    /\ call[c].pc = "alloc"
    /\ \/ /\ ~call[c].ctxDone
          /\ nextTxnID' = NewTransactionID + 1
          /\ call' = [call EXCEPT ![c] =
                         [@ EXCEPT !.newTxnID = NewTransactionID,
                                   !.idx = 1,
                                   !.pc = AfterMutation(call[c].mutations, 0, FALSE)]]
          /\ obs' = [obs EXCEPT ![c].log = Append(@, Stmt("alloc", 0))]
          /\ UNCHANGED <<tableTuple, lastRevision>>
       \/ \E cause \in StatementErrors(c) : \E drawn \in {0, 1} :
          /\ nextTxnID' = nextTxnID + drawn
          /\ ReturnError(c, WrapError(cause), "alloc", cause, <<Stmt("alloc", 0)>>)

(* A planner for which CREATE closes the live row too. *)
ClosesAll(op) == op \in {"TOUCH", "DELETE", "CREATE"}

(* mutation.Operation == TOUCH || mutation.Operation == DELETE *)
Closes(op) == op \in {"TOUCH", "DELETE"}

(* A planner that stages a row for CREATE alone. *)
WritesCreateOnly(op) == op = "CREATE"

(* mutation.Operation == TOUCH || mutation.Operation == CREATE *)
Writes(op) == op \in {"TOUCH", "CREATE"}

(* A loop that sends the INSERT of a row as it meets the row's mutation,   *)
(* after the UPDATE of that mutation, in place of one batch at the end.    *)
ProcessMutationEager(c) ==
    /\ call[c].pc = "mutate"
    /\ LET mutation == call[c].mutations[call[c].idx]
           tpl == mutation.Tuple
           closes == Closes(mutation.Operation)
           writes == Writes(mutation.Operation)
           targets == IF closes THEN Select(c, deleteTuple(tpl)) ELSE {}
           row == IF writes THEN <<writeTuple(tpl, call[c].newTxnID)>> ELSE <<>>
           closed == [id \in DOMAIN View(c) |->
                         IF id \in targets
                         THEN [View(c)[id] EXCEPT !.deleted_transaction = CloseStamp(c)]
                         ELSE View(c)[id]]
           sent == (IF closes THEN <<Stmt("close", 0)>> ELSE <<>>)
                   \o (IF writes THEN <<Stmt("insert", 1)>> ELSE <<>>)
       IN \/ /\ ~call[c].ctxDone
             /\ \A id \in targets : ~LockedByOther(c, id)
             /\ ~InsertWaits(c, row)
             /\ ~UniqueViolation(closed \o row)
             /\ call' = [call EXCEPT ![c] =
                            [@ EXCEPT !.txClosed = @ \cup (targets \cap DOMAIN tableTuple),
                                      !.txInserted =
                                          SubSeq(closed, Len(tableTuple) + 1, Len(closed)) \o row,
                                      !.pc = AfterMutation(call[c].mutations, call[c].idx, FALSE),
                                      !.idx = @ + 1]]
             /\ obs' = [obs EXCEPT ![c].log = @ \o sent]
             /\ UNCHANGED <<tableTuple, nextTxnID, lastRevision>>
          \/ /\ ~call[c].ctxDone
             /\ \A id \in targets : ~LockedByOther(c, id)
             /\ ~InsertWaits(c, row)
             /\ UniqueViolation(closed \o row)
             /\ ReturnError(c, WrapError(uniqueViolation), "insert", uniqueViolation, sent)
             /\ UNCHANGED nextTxnID
          \/ /\ \E cause \in StatementErrors(c) :
                    ReturnError(c, WrapError(cause), "mutate", cause, sent)
             /\ UNCHANGED nextTxnID

(* One iteration of the mutation loop. *)
ProcessMutation(c) ==
    /\ call[c].pc = "mutate"
    /\ LET mutation == call[c].mutations[call[c].idx]
           tpl == mutation.Tuple
           closes == Closes(mutation.Operation)
           writes == Writes(mutation.Operation)
           targets == IF closes THEN Select(c, deleteTuple(tpl)) ELSE {}
           staged == IF writes
                     THEN Append(call[c].bulkWrite, writeTuple(tpl, call[c].newTxnID))
                     ELSE call[c].bulkWrite
           hasValues == call[c].bulkWriteHasValues \/ writes
           sent == IF closes THEN <<Stmt("close", 0)>> ELSE <<>>
       IN \/ /\ closes => ~call[c].ctxDone
             /\ \A id \in targets : ~LockedByOther(c, id)
             /\ call' = [call EXCEPT ![c] =
                            [@ EXCEPT !.txClosed = @ \cup targets,
                                      !.bulkWrite = staged,
                                      !.bulkWriteHasValues = hasValues,
                                      !.pc = AfterMutation(call[c].mutations, call[c].idx, hasValues),
                                      !.idx = @ + 1]]
             /\ obs' = [obs EXCEPT ![c].log = @ \o sent]
             /\ UNCHANGED <<tableTuple, nextTxnID, lastRevision>>
          \/ /\ closes
             /\ \E cause \in StatementErrors(c) :
                    ReturnError(c, WrapError(cause), "mutate", cause, sent)
             /\ UNCHANGED nextTxnID

(* if bulkWriteHasValues: the one batched INSERT. *)
ExecBulkWrite(c) ==
    /\ call[c].pc = "insert"
    /\ LET rows == call[c].bulkWrite
           sent == <<Stmt("insert", Len(rows))>>
       IN \/ /\ ~call[c].ctxDone
             /\ ~InsertWaits(c, rows)
             /\ ~UniqueViolation(View(c) \o rows)
             /\ call' = [call EXCEPT ![c] =
                            [@ EXCEPT !.txInserted = rows, !.pc = "commit"]]
             /\ obs' = [obs EXCEPT ![c].log = @ \o sent]
             /\ UNCHANGED <<tableTuple, nextTxnID, lastRevision>>
          \/ /\ ~call[c].ctxDone
             /\ ~InsertWaits(c, rows)
             /\ UniqueViolation(View(c) \o rows)
             /\ ReturnError(c, WrapError(uniqueViolation), "insert", uniqueViolation, sent)
             /\ UNCHANGED nextTxnID
          \/ \E cause \in StatementErrors(c) :
             /\ ReturnError(c, WrapError(cause), "insert", cause, sent)
             /\ UNCHANGED nextTxnID

(* A success path that returns what the error paths return. *)
ReturnNoRevision(c) == NoRevision

(* What a committed call returns. *)
ReturnRevision(c) == revisionFromTransaction(call[c].newTxnID)

(* A commit under a context of its own. *)
CommitCtxBackground(c) == FALSE

(* The context tx.Commit is given. *)
CommitCtx(c) == call[c].ctxDone

(* tx.Commit(ctx) and the return of the revision. *)
Commit(c) ==
    /\ call[c].pc = "commit"
    /\ \/ /\ ~CommitCtx(c)
          /\ tableTuple' = AfterCommit(c)
          /\ call' = [call EXCEPT ![c] =
                         [@ EXCEPT !.pc = "done", !.idx = 1, !.bulkWrite = <<>>,
                                   !.bulkWriteHasValues = FALSE,
                                   !.txClosed = {}, !.txInserted = <<>>,
                                   !.revision = ReturnRevision(c), !.err = NoError]]
          /\ obs' = [obs EXCEPT ![c].log = Append(@, Stmt("commit", 0))]
          /\ lastRevision' = IF ReturnRevision(c) > lastRevision
                             THEN ReturnRevision(c) ELSE lastRevision
          /\ UNCHANGED nextTxnID
       \/ \E cause \in StatementErrors(c) :
          /\ ReturnError(c, WrapError(cause), "commit", cause, <<Stmt("commit", 0)>>)
          /\ UNCHANGED nextTxnID

(* The caller has the result; it may call again. *)
Return(c) ==
    /\ call[c].pc = "done"
    /\ call' = [call EXCEPT ![c] = IdleCall]
    /\ obs' = [obs EXCEPT ![c] = NoObs]
    /\ UNCHANGED <<tableTuple, nextTxnID, lastRevision>>

NoneDone == \A d \in Callers : call[d].pc # "done"

Statement(c) ==
    \/ CheckPrecondition(c)
    \/ createNewTransaction(c)
    \/ ProcessMutation(c)
    \/ ExecBulkWrite(c)
    \/ Commit(c)

(***************************************************************************)
(* Spec: one caller, one call after the other.                             *)
(***************************************************************************)
Next ==
    \/ \E pre \in SeqsUpTo(SpecTuples, MaxPre) :
       \E muts \in SeqsUpTo(RelationTupleUpdate(SpecTuples), MaxMut) :
       \E done \in BOOLEAN : Begin("c1", pre, muts, done)
    \/ Cancel("c1")
    \/ Statement("c1")
    \/ Return("c1")

Spec == Init /\ [][Next]_vars

(***************************************************************************)
(* SpecKeys: one caller, one call after the other, over tuples that share  *)
(* their object and differ in their subject.                               *)
(***************************************************************************)
MaxTxnKeys == 2

NextKeys ==
    \/ /\ nextTxnID <= MaxTxnKeys
       /\ \E pre \in SeqsUpTo(Tuples, MaxPre) :
          \E muts \in SeqsUpTo(RelationTupleUpdate(Tuples), MaxMut) :
              Begin("c1", pre, muts, FALSE)
    \/ Statement("c1")
    \/ Return("c1")

SpecKeys == Init /\ [][NextKeys]_vars

(***************************************************************************)
(* SpecConc: two callers whose calls overlap.  A returned call is taken    *)
(* note of before anything else moves.                                     *)
(***************************************************************************)
MaxMutConc == 1
MaxPreConc == 1

NextConc ==
    \/ \E c \in Callers :
       \E pre \in SeqsUpTo(SpecTuples, MaxPreConc) :
       \E muts \in SeqsUpTo(RelationTupleUpdate(SpecTuples), MaxMutConc) :
           NoneDone /\ Begin(c, pre, muts, FALSE)
    \/ \E c \in Callers : NoneDone /\ CheckPrecondition(c)
    \/ \E c \in Callers : NoneDone /\ createNewTransaction(c)
    \/ \E c \in Callers : NoneDone /\ ProcessMutation(c)
    \/ \E c \in Callers : NoneDone /\ ExecBulkWrite(c)
    \/ \E c \in Callers : NoneDone /\ Commit(c)
    \/ \E c \in Callers : Return(c)

SpecConc == Init /\ [][NextConc]_vars

(***************************************************************************)
(* What the properties below speak of.                                     *)
(***************************************************************************)
Done(c) == call[c].pc = "done"

Succeeded(c) == Done(c) /\ call[c].err.kind = "nil"

Failed(c) == Done(c) /\ call[c].err.kind # "nil"

(* No statement of the call came back with an error of the engine. *)
NoFault(c) == obs[c].failedAt = "none"

TupleKey(tpl) ==
    <<tpl.ObjectAndRelation.Namespace, tpl.ObjectAndRelation.ObjectId,
      tpl.ObjectAndRelation.Relation,
      tpl.User.Namespace, tpl.User.ObjectId, tpl.User.Relation>>

RowKey(row) ==
    <<row.namespace, row.object_id, row.relation,
      row.userset_namespace, row.userset_object_id, row.userset_relation>>

StoredRow(tpl, createdAt, deletedAt) ==
    [namespace |-> tpl.ObjectAndRelation.Namespace,
     object_id |-> tpl.ObjectAndRelation.ObjectId,
     relation |-> tpl.ObjectAndRelation.Relation,
     userset_namespace |-> tpl.User.Namespace,
     userset_object_id |-> tpl.User.ObjectId,
     userset_relation |-> tpl.User.Relation,
     created_transaction |-> createdAt,
     deleted_transaction |-> deletedAt]

RowsOf(table, tpl) == {id \in DOMAIN table : RowKey(table[id]) = TupleKey(tpl)}

LiveRowsOf(table, tpl) ==
    {id \in RowsOf(table, tpl) : table[id].deleted_transaction = liveDeletedTxnID}

LiveSet(table) ==
    {RowKey(table[id]) : id \in {n \in DOMAIN table :
                                    table[n].deleted_transaction = liveDeletedTxnID}}

Range(f) == {f[x] : x \in DOMAIN f}

(* The precondition tuples of c's call that had no live row when it began. *)
NotLiveBefore(c) ==
    {tpl \in Range(call[c].preconditions) : LiveRowsOf(obs[c].before, tpl) = {}}

(***************************************************************************)
(* C1: a precondition is satisfied only by a live row.  A call one of      *)
(* whose precondition tuples had no live row (no row at all, or only       *)
(* closed rows) returns PreconditionFailed naming such a tuple, and the    *)
(* store is as it was -- unless a statement failed first.                  *)
(***************************************************************************)
C1_PreconditionNeedsLiveRow ==
    \A c \in Callers :
        (Done(c) /\ NoFault(c) /\ NotLiveBefore(c) # {}) =>
            /\ call[c].err.kind = "PreconditionFailed"
            /\ call[c].err.tuple \in NotLiveBefore(c)
            /\ tableTuple = obs[c].before

(***************************************************************************)
(* C2: a call that returns an error, whatever the stage it failed at,      *)
(* returns no revision and leaves the committed store as it was when the   *)
(* call began: no row closed, no row inserted, the revision it drew on no  *)
(* row.                                                                    *)
(***************************************************************************)
C2_FailureLeavesStoreUnchanged ==
    \A c \in Callers :
        Failed(c) =>
            /\ call[c].revision = NoRevision
            /\ tableTuple = obs[c].before
            /\ call[c].newTxnID # 0 =>
                   \A id \in DOMAIN tableTuple :
                       /\ tableTuple[id].created_transaction # call[c].newTxnID
                       /\ tableTuple[id].deleted_transaction # call[c].newTxnID

(* A call that failed at commit, after it closed a live row and inserted one. *)
C2_Witness ==
    \E c \in Callers :
        /\ Failed(c)
        /\ obs[c].failedAt = "commit"
        /\ \E n \in DOMAIN call[c].mutations :
               /\ call[c].mutations[n].Operation \in {"TOUCH", "DELETE"}
               /\ LiveRowsOf(obs[c].before, call[c].mutations[n].Tuple) # {}
        /\ \E n \in DOMAIN call[c].mutations :
               call[c].mutations[n].Operation \in {"TOUCH", "CREATE"}

(***************************************************************************)
(* C3: in the committed store every TupleKey has at most one live row,     *)
(* whatever calls committed before.                                        *)
(***************************************************************************)
C3_AtMostOneLiveRow ==
    \A a, b \in DOMAIN tableTuple :
        (a # b /\ RowKey(tableTuple[a]) = RowKey(tableTuple[b])) =>
            ~(/\ tableTuple[a].deleted_transaction = liveDeletedTxnID
              /\ tableTuple[b].deleted_transaction = liveDeletedTxnID)

(* A CREATE of a key that was live came back, the key having a closed row *)
(* and a live one.                                                        *)
C3_Witness ==
    \E c \in Callers :
        /\ Done(c)
        /\ \E n \in DOMAIN call[c].mutations :
               /\ call[c].mutations[n].Operation = "CREATE"
               /\ LiveRowsOf(obs[c].before, call[c].mutations[n].Tuple) # {}
               /\ Cardinality(RowsOf(tableTuple, call[c].mutations[n].Tuple)) >= 2

(***************************************************************************)
(* C4: the revision a successful call returns is greater than every        *)
(* revision returned before the call began, also when calls that drew a    *)
(* revision and failed lie in between.                                     *)
(***************************************************************************)
C4_RevisionsIncrease ==
    \A c \in Callers : Succeeded(c) => call[c].revision > obs[c].floor

(* A success whose revision skips one that a failed call drew. *)
C4_Witness ==
    \E c \in Callers :
        /\ Succeeded(c)
        /\ obs[c].floor # NoRevision
        /\ call[c].revision > obs[c].floor + 1

(***************************************************************************)
(* C5: TOUCH is an upsert.  A successful call whose one mutation is a      *)
(* TOUCH or a CREATE of a key with no live row leaves the same store: the  *)
(* store before plus one live row of the key created at the returned       *)
(* revision.  A successful call whose one mutation is a TOUCH of a key     *)
(* with a live row leaves exactly one live row of the key, created at the  *)
(* returned revision, and the row that was live closed at that revision.   *)
(***************************************************************************)
C5_TouchIsUpsert ==
    \A c \in Callers :
        (Succeeded(c) /\ Len(call[c].mutations) = 1) =>
            LET op == call[c].mutations[1].Operation
                tpl == call[c].mutations[1].Tuple
                R == call[c].revision
                before == obs[c].before
            IN /\ (op \in {"TOUCH", "CREATE"} /\ LiveRowsOf(before, tpl) = {}) =>
                      /\ R # NoRevision
                      /\ \E txID \in 1..nextTxnID :
                             /\ revisionFromTransaction(txID) = R
                             /\ tableTuple =
                                    Append(before, StoredRow(tpl, txID, liveDeletedTxnID))
               /\ (op = "TOUCH" /\ LiveRowsOf(before, tpl) # {}) =>
                      /\ Cardinality(LiveRowsOf(tableTuple, tpl)) = 1
                      /\ \A new \in LiveRowsOf(tableTuple, tpl) :
                         \A old \in LiveRowsOf(before, tpl) :
                             /\ new \notin DOMAIN before
                             /\ tableTuple[old].deleted_transaction =
                                    tableTuple[new].created_transaction
                             /\ revisionFromTransaction(
                                    tableTuple[new].created_transaction) = R

(* A lone TOUCH of a live key succeeded. *)
C5_Witness ==
    \E c \in Callers :
        /\ Succeeded(c)
        /\ Len(call[c].mutations) = 1
        /\ call[c].mutations[1].Operation = "TOUCH"
        /\ LiveRowsOf(obs[c].before, call[c].mutations[1].Tuple) # {}

(***************************************************************************)
(* C6: delete is idempotent.  A call with no preconditions whose one       *)
(* mutation is a DELETE of a key with no live row succeeds (no statement   *)
(* failing), returns a revision greater than every revision returned or    *)
(* stored before, and leaves the store as it was: no row closed, none      *)
(* inserted.                                                               *)
(***************************************************************************)
C6_DeleteIsIdempotent ==
    \A c \in Callers :
        (/\ Done(c)
         /\ NoFault(c)
         /\ call[c].preconditions = <<>>
         /\ Len(call[c].mutations) = 1
         /\ call[c].mutations[1].Operation = "DELETE"
         /\ LiveRowsOf(obs[c].before, call[c].mutations[1].Tuple) = {}) =>
            /\ Succeeded(c)
            /\ call[c].revision > obs[c].floor
            /\ \A id \in DOMAIN obs[c].before :
                   LET row == obs[c].before[id]
                   IN /\ revisionFromTransaction(row.created_transaction) < call[c].revision
                      /\ row.deleted_transaction # liveDeletedTxnID =>
                             revisionFromTransaction(row.deleted_transaction)
                                 < call[c].revision
            /\ tableTuple = obs[c].before

(* A lone DELETE of a key whose only row is closed succeeded. *)
C6_Witness ==
    \E c \in Callers :
        /\ Succeeded(c)
        /\ call[c].preconditions = <<>>
        /\ Len(call[c].mutations) = 1
        /\ call[c].mutations[1].Operation = "DELETE"
        /\ LiveRowsOf(obs[c].before, call[c].mutations[1].Tuple) = {}
        /\ RowsOf(obs[c].before, call[c].mutations[1].Tuple) # {}

(***************************************************************************)
(* C7: calls that overlap commit only what some serial order of them       *)
(* commits: no key ends with two live rows, and every precondition tuple   *)
(* of a committed call, seen live by its check, has a row that is live at  *)
(* the revision the call takes effect at (created before it, not closed    *)
(* before it).                                                             *)
(***************************************************************************)
C7_OverlappingCallsSerialize ==
    /\ \A tpl \in Tuples : Cardinality(LiveRowsOf(tableTuple, tpl)) <= 1
    /\ \A c \in Callers :
           (Succeeded(c) /\ obs[c].preSeenLive) =>
               \A tpl \in Range(call[c].preconditions) :
                   \E id \in RowsOf(tableTuple, tpl) :
                       /\ revisionFromTransaction(tableTuple[id].created_transaction)
                              < call[c].revision
                       /\ \/ tableTuple[id].deleted_transaction = liveDeletedTxnID
                          \/ revisionFromTransaction(tableTuple[id].deleted_transaction)
                                 >= call[c].revision

(* The stage labels of the error envelope, by the statement that failed. *)
StageLabel(at) ==
    CASE at = "precond" -> "precondition-check"
      [] at = "commit" -> "commit"
      [] OTHER -> "write-execution"

ScenarioA(c) ==
    /\ Done(c)
    /\ NoFault(c)
    /\ call[c].preconditions = <<tupleA>>
    /\ call[c].mutations = <<[Operation |-> "TOUCH", Tuple |-> tupleA2],
                             [Operation |-> "CREATE", Tuple |-> tupleB]>>
    /\ LiveSet(obs[c].before) = {TupleKey(tupleA)}

(***************************************************************************)
(* C10 as claimed: Scenario A returns a revision R, closes tupleA's old    *)
(* row at R, creates the new tupleA row and the tupleB row at R, and the   *)
(* live set is exactly {tupleA(new), tupleB}.                              *)
(***************************************************************************)
C10_ScenarioAClosesOldRow ==
    \A c \in Callers :
        ScenarioA(c) =>
            /\ Succeeded(c)
            /\ \A old \in LiveRowsOf(obs[c].before, tupleA) :
                   revisionFromTransaction(tableTuple[old].deleted_transaction)
                       = call[c].revision
            /\ \A tpl \in {tupleA2, tupleB} : \A new \in LiveRowsOf(tableTuple, tpl) :
                   revisionFromTransaction(tableTuple[new].created_transaction)
                       = call[c].revision
            /\ LiveSet(tableTuple) = {TupleKey(tupleA2), TupleKey(tupleB)}

(***************************************************************************)
(* C10, amended: Scenario A returns a revision R and appends the new       *)
(* tupleA row and the tupleB row, both created at R and live; tupleA's     *)
(* old row, whose key differs in the subject, stays as it was, so the      *)
(* live set is exactly {tupleA(old), tupleA(new), tupleB}.                 *)
(***************************************************************************)
C10_ScenarioAKeepsOldRow ==
    \A c \in Callers :
        ScenarioA(c) =>
            /\ Succeeded(c)
            /\ \E txID \in 1..nextTxnID :
                   /\ revisionFromTransaction(txID) = call[c].revision
                   /\ tableTuple = obs[c].before \o
                          <<StoredRow(tupleA2, txID, liveDeletedTxnID),
                            StoredRow(tupleB, txID, liveDeletedTxnID)>>
            /\ LiveSet(tableTuple) =
                   {TupleKey(tupleA), TupleKey(tupleA2), TupleKey(tupleB)}

(* Scenario A ran to its end. *)
C10_Witness == \E c \in Callers : ScenarioA(c) /\ Succeeded(c)

(***************************************************************************)
(* C11: a call that returns PreconditionFailed sent nothing but existence  *)
(* queries, one per precondition up to the one it names; that one is the   *)
(* first of the list with no live row; the call drew no transaction id     *)
(* (createNewTransaction was not invoked), sent no UPDATE and no INSERT,   *)
(* and the store is as it was when the call began.                         *)
(***************************************************************************)
C11_PreconditionFailedStopsAtFirstUnsatisfied ==
    \A c \in Callers :
        (Done(c) /\ call[c].err.kind = "PreconditionFailed") =>
            LET n == Len(obs[c].log)
            IN /\ n \in DOMAIN call[c].preconditions
               /\ \A i \in 1..n : obs[c].log[i] = Stmt("query", 0)
               /\ call[c].err.tuple = call[c].preconditions[n]
               /\ LiveRowsOf(obs[c].before, call[c].preconditions[n]) = {}
               /\ \A i \in 1..(n - 1) :
                      LiveRowsOf(obs[c].before, call[c].preconditions[i]) # {}
               /\ call[c].newTxnID = 0
               /\ nextTxnID = obs[c].seqBefore
               /\ tableTuple = obs[c].before

(***************************************************************************)
(* C12: in every state of the committed store, also when calls overlap and *)
(* commit in another order than they drew their transaction ids in, a row  *)
(* that is closed has a deleted_transaction greater than its               *)
(* created_transaction.                                                    *)
(***************************************************************************)
C12_DeletedAfterCreated ==
    \A id \in DOMAIN tableTuple :
        tableTuple[id].deleted_transaction # liveDeletedTxnID =>
            tableTuple[id].deleted_transaction > tableTuple[id].created_transaction

(***************************************************************************)
(* C13: history is append-only.  No step removes a row of the committed    *)
(* store or changes a row's key or created_transaction, and a step that    *)
(* changes a row's deleted_transaction changes it from the sentinel to a   *)
(* transaction id: a closed row is never closed or stamped again by a      *)
(* later DELETE or TOUCH of its key.                                       *)
(***************************************************************************)
C13_HistoryAppendOnly ==
    [][/\ Len(tableTuple') >= Len(tableTuple)
       /\ \A id \in DOMAIN tableTuple :
              /\ RowKey(tableTuple'[id]) = RowKey(tableTuple[id])
              /\ tableTuple'[id].created_transaction =
                     tableTuple[id].created_transaction
              /\ tableTuple'[id].deleted_transaction #
                     tableTuple[id].deleted_transaction =>
                     /\ tableTuple[id].deleted_transaction = liveDeletedTxnID
                     /\ tableTuple'[id].deleted_transaction # liveDeletedTxnID]_vars

(* A TOUCH of a key that had a closed row and a live one committed: the   *)
(* closed row is as it was, the live one is closed.                       *)
C13_Witness ==
    \E c \in Callers :
        /\ Succeeded(c)
        /\ \E n \in DOMAIN call[c].mutations :
               LET tpl == call[c].mutations[n].Tuple
               IN /\ call[c].mutations[n].Operation = "TOUCH"
                  /\ \E old \in RowsOf(obs[c].before, tpl) \ LiveRowsOf(obs[c].before, tpl) :
                         tableTuple[old] = obs[c].before[old]
                  /\ \E was \in LiveRowsOf(obs[c].before, tpl) :
                         tableTuple[was].deleted_transaction # liveDeletedTxnID

(* The places of the statements of one kind in a call's log. *)
Sent(c, kind) == {i \in DOMAIN obs[c].log : obs[c].log[i].stmt = kind}

(* The mutations of a list that close a row, and those that insert one. *)
ClosingMutations(muts) ==
    SelectSeq(muts, LAMBDA m : m.Operation \in {"DELETE", "TOUCH"})

InsertingMutations(muts) ==
    SelectSeq(muts, LAMBDA m : m.Operation \in {"CREATE", "TOUCH"})

(***************************************************************************)
(* C14: at every point of a call the statements it has sent are, in this   *)
(* order: one existence query per precondition, then one allocation of a   *)
(* transaction id, then UPDATEs and the INSERT, then the commit as the     *)
(* last.  The call holds a transaction id, and has written a row, only     *)
(* once every precondition was queried and the allocation was sent; a      *)
(* successful call sent all its queries, exactly one allocation and, last, *)
(* one commit.                                                             *)
(***************************************************************************)
C14_StepsInOrder ==
    \A c \in Callers :
        LET log == obs[c].log
            np == Len(call[c].preconditions)
        IN /\ \A i \in DOMAIN log :
                  /\ i <= np => log[i].stmt = "query"
                  /\ i = np + 1 => log[i].stmt = "alloc"
                  /\ i > np + 1 => log[i].stmt \in {"close", "insert", "commit"}
                  /\ log[i].stmt = "commit" => i = Len(log)
           /\ call[c].newTxnID # 0 => Len(log) >= np + 1
           /\ (call[c].txClosed # {} \/ call[c].txInserted # <<>>) =>
                  call[c].newTxnID # 0
           /\ Succeeded(c) =>
                  /\ Cardinality(Sent(c, "query")) = np
                  /\ Cardinality(Sent(c, "alloc")) = 1
                  /\ Sent(c, "commit") = {Len(log)}
                  /\ call[c].newTxnID # 0
                  /\ tableTuple # obs[c].before =>
                         Sent(c, "close") \cup Sent(c, "insert") # {}

(* A call with two preconditions, a row to close and a row to insert      *)
(* committed.                                                             *)
C14_Witness ==
    \E c \in Callers :
        /\ Succeeded(c)
        /\ Len(call[c].preconditions) = MaxPre
        /\ Sent(c, "close") # {}
        /\ Sent(c, "insert") # {}
        /\ Len(tableTuple) > Len(obs[c].before)
        /\ \E id \in DOMAIN obs[c].before :
               tableTuple[id] # obs[c].before[id]

(***************************************************************************)
(* C15: in one call every UPDATE of a DELETE or TOUCH mutation is sent     *)
(* before the INSERT, wherever the CREATE and TOUCH mutations stand in the *)
(* list: no UPDATE follows an INSERT, and when the INSERT is sent one      *)
(* UPDATE has been sent for each DELETE and TOUCH of the list.             *)
(***************************************************************************)
C15_ClosesBeforeInsert ==
    \A c \in Callers :
        /\ \A i \in Sent(c, "insert") : \A j \in Sent(c, "close") : j < i
        /\ Sent(c, "insert") # {} =>
               Cardinality(Sent(c, "close")) =
                   Len(ClosingMutations(call[c].mutations))
        /\ call[c].txInserted # <<>> => Sent(c, "insert") # {}

(* A call whose list has a CREATE or TOUCH before a DELETE of a live key   *)
(* committed.                                                              *)
C15_Witness ==
    \E c \in Callers :
        /\ Succeeded(c)
        /\ Len(call[c].mutations) = 2
        /\ call[c].mutations[1].Operation \in {"CREATE", "TOUCH"}
        /\ call[c].mutations[2].Operation = "DELETE"
        /\ \E id \in LiveRowsOf(obs[c].before, call[c].mutations[2].Tuple) :
               tableTuple[id].deleted_transaction # liveDeletedTxnID

(***************************************************************************)
(* C16: a successful call with N CREATE or TOUCH mutations sent exactly    *)
(* one INSERT, of N rows, when N >= 1, and the rows the store gained are   *)
(* the rows of those N mutations; it sent no INSERT when N = 0, and the    *)
(* store gained no row.                                                    *)
(***************************************************************************)
C16_OneBatchedInsert ==
    \A c \in Callers :
        Succeeded(c) =>
            LET inserting == InsertingMutations(call[c].mutations)
                N == Len(inserting)
                gained == SubSeq(tableTuple, Len(obs[c].before) + 1, Len(tableTuple))
            IN /\ N >= 1 =>
                      /\ Cardinality(Sent(c, "insert")) = 1
                      /\ \A i \in Sent(c, "insert") : obs[c].log[i].rows = N
               /\ N = 0 => Sent(c, "insert") = {}
               /\ Len(gained) = N
               /\ \A n \in 1..N :
                      gained[n] = StoredRow(inserting[n].Tuple, call[c].newTxnID,
                                            liveDeletedTxnID)

(* A call with two inserting mutations committed. *)
C16_Witness ==
    \E c \in Callers :
        /\ Succeeded(c)
        /\ Len(InsertingMutations(call[c].mutations)) = 2
        /\ Len(tableTuple) = Len(obs[c].before) + 2

(***************************************************************************)
(* C17: the actions of a successful call share one revision.  The call     *)
(* drew one transaction id, not held by any row before; every row the      *)
(* store gained has that id as created_transaction, every row the call     *)
(* closed has it as deleted_transaction, and the revision returned is the  *)
(* revision of that id.                                                    *)
(***************************************************************************)
C17_OneRevisionPerCall ==
    \A c \in Callers :
        Succeeded(c) =>
            LET txID == call[c].newTxnID
                before == obs[c].before
            IN /\ txID >= obs[c].seqBefore
               /\ txID < nextTxnID
               /\ Cardinality(Sent(c, "alloc")) = 1
               /\ \A id \in DOMAIN before :
                      /\ before[id].created_transaction # txID
                      /\ before[id].deleted_transaction # txID
               /\ \A id \in DOMAIN tableTuple \ DOMAIN before :
                      /\ tableTuple[id].created_transaction = txID
                      /\ tableTuple[id].deleted_transaction = liveDeletedTxnID
               /\ \A id \in DOMAIN before :
                      tableTuple[id] # before[id] =>
                          tableTuple[id] = [before[id] EXCEPT !.deleted_transaction = txID]
               /\ call[c].revision = revisionFromTransaction(txID)

(* A call of two mutations that closed a row and inserted two committed. *)
C17_Witness ==
    \E c \in Callers :
        /\ Succeeded(c)
        /\ Len(tableTuple) = Len(obs[c].before) + 2
        /\ \E id \in DOMAIN obs[c].before :
               /\ obs[c].before[id].deleted_transaction = liveDeletedTxnID
               /\ tableTuple[id].deleted_transaction = call[c].newTxnID

(* Mutation n of c's call is a CREATE of a key that was live when the call *)
(* began, and no DELETE or TOUCH of the call is about that key.            *)
CreateOfLiveKey(c, n) ==
    /\ call[c].mutations[n].Operation = "CREATE"
    /\ LiveRowsOf(obs[c].before, call[c].mutations[n].Tuple) # {}
    /\ \A m \in DOMAIN call[c].mutations :
           call[c].mutations[m].Tuple = call[c].mutations[n].Tuple =>
               call[c].mutations[m].Operation = "CREATE"

(***************************************************************************)
(* C18: CREATE is no upsert.  A call of CREATE mutations alone sends no    *)
(* UPDATE.  A call with a CREATE of a key that had a live row (and no      *)
(* DELETE or TOUCH of that key) leaves that row as it was, live; the call  *)
(* fails as a whole, short of its commit, and the store is as it was when  *)
(* the call began; when the INSERT was sent it is the INSERT that failed,   *)
(* and unless the engine or the context failed it, the failure is the      *)
(* storage constraint's, wrapped as a write failure.                       *)
(***************************************************************************)
C18_CreateIsNotUpsert ==
    \A c \in Callers :
        /\ (\A n \in DOMAIN call[c].mutations :
                call[c].mutations[n].Operation = "CREATE") =>
               /\ Sent(c, "close") = {}
               /\ call[c].txClosed = {}
        /\ Done(c) =>
               \A n \in DOMAIN call[c].mutations :
                   CreateOfLiveKey(c, n) =>
                       /\ \A id \in LiveRowsOf(obs[c].before, call[c].mutations[n].Tuple) :
                              tableTuple[id] = obs[c].before[id]
                       /\ Failed(c)
                       /\ obs[c].failedAt # "commit"
                       /\ tableTuple = obs[c].before
                       /\ Sent(c, "insert") # {} =>
                              /\ obs[c].failedAt = "insert"
                              /\ call[c].err.kind = "WriteFailed"
                              /\ obs[c].cause \notin Causes \cup {ctxCanceled} =>
                                     call[c].err = WrapError(uniqueViolation)

(* A call that closed the live row of one key and came to its INSERT with  *)
(* a CREATE of another live key: it failed on the constraint.              *)
C18_Witness ==
    \E c \in Callers :
        /\ Failed(c)
        /\ call[c].err.cause = uniqueViolation
        /\ Sent(c, "close") # {}
        /\ \E n \in DOMAIN call[c].mutations : CreateOfLiveKey(c, n)
        /\ \E m \in DOMAIN call[c].mutations :
               /\ call[c].mutations[m].Operation = "DELETE"
               /\ LiveRowsOf(obs[c].before, call[c].mutations[m].Tuple) # {}

(* Neither the engine nor the context failed a statement of c's call. *)
NoEngineFault(c) == obs[c].cause \notin Causes \cup {ctxCanceled}

(***************************************************************************)
(* C19: the outcome of a call does not depend on the order of its lists.   *)
(* Unless the engine or the context fails a statement, whether the call    *)
(* succeeds and the store it leaves are given by the store before, the SET *)
(* of its precondition tuples and the BAG of its mutations: it succeeds    *)
(* iff every precondition tuple has a row and no key is inserted twice or  *)
(* inserted while live and not closed by the call; a failed call leaves    *)
(* the store as it was; a successful one closes the live rows of the keys  *)
(* of its DELETE and TOUCH mutations and gains one row per CREATE and      *)
(* TOUCH mutation.  So [CREATE(k), DELETE(k)] and [DELETE(k), CREATE(k)]   *)
(* both leave a new live row of k.                                         *)
(***************************************************************************)
C19_OrderDoesNotMatter ==
    \A c \in Callers :
        (Done(c) /\ NoEngineFault(c)) =>
            LET pre == call[c].preconditions
                muts == call[c].mutations
                before == obs[c].before
                txID == obs[c].seqBefore
                closing == {m.Tuple : m \in {x \in Range(muts) :
                                                x.Operation \in {"DELETE", "TOUCH"}}}
                count(tpl) == Cardinality({n \in DOMAIN muts :
                                  /\ muts[n].Operation \in {"CREATE", "TOUCH"}
                                  /\ muts[n].Tuple = tpl})
                preOK == \A tpl \in Range(pre) : RowsOf(before, tpl) # {}
                conflict == \E tpl \in Tuples :
                                \/ count(tpl) >= 2
                                \/ /\ count(tpl) = 1
                                   /\ LiveRowsOf(before, tpl) # {}
                                   /\ tpl \notin closing
                closedIds == UNION {LiveRowsOf(before, tpl) : tpl \in closing}
            IN /\ Succeeded(c) <=> (preOK /\ ~conflict)
               /\ Failed(c) => tableTuple = before
               /\ Succeeded(c) =>
                      /\ \A id \in DOMAIN before :
                             tableTuple[id] =
                                 IF id \in closedIds
                                 THEN [before[id] EXCEPT !.deleted_transaction = txID]
                                 ELSE before[id]
                      /\ {tableTuple[id] : id \in DOMAIN tableTuple \ DOMAIN before} =
                             {StoredRow(tpl, txID, liveDeletedTxnID) :
                                  tpl \in {t \in Tuples : count(t) >= 1}}
                      /\ Len(tableTuple) = Len(before) + Len(InsertingMutations(muts))

(* A call with two preconditions, and the CREATE of a live key ahead of    *)
(* the DELETE of that key, committed: the old row is closed, a new one     *)
(* is live.                                                                *)
C19_Witness ==
    \E c \in Callers :
        /\ Succeeded(c)
        /\ Len(call[c].preconditions) = 2
        /\ call[c].preconditions[1] # call[c].preconditions[2]
        /\ Len(call[c].mutations) = 2
        /\ call[c].mutations[1].Operation = "CREATE"
        /\ call[c].mutations[2].Operation = "DELETE"
        /\ call[c].mutations[1].Tuple = call[c].mutations[2].Tuple
        /\ LiveRowsOf(obs[c].before, call[c].mutations[1].Tuple) # {}
        /\ \E id \in LiveRowsOf(tableTuple, call[c].mutations[1].Tuple) :
               id \notin DOMAIN obs[c].before

=============================================================================
